---- MODULE Spec2Model ----
(***************************************************************************)
(* Model of src/app.py: the three-stage e-mail validation pipeline         *)
(* validate_email_full (syntax -> DNS/MX -> SMTP mailbox probe) and the    *)
(* /validate endpoint that calls it.                                       *)
(*                                                                         *)
(* One request is followed statement by statement (pc).  The outside world *)
(* (resolver answers and exceptions, SMTP replies, disconnects) is chosen  *)
(* nondeterministically at the statement that consults it.                 *)
(*                                                                         *)
(* Encodings: an address is a sequence of one-character strings; the       *)
(* tri-state checks.mailbox_exists (Python True / False / "undetermined" / *)
(* "unchecked") is one of the strings "True", "False", "undetermined",     *)
(* "unchecked".                                                            *)
(***************************************************************************)
EXTENDS Integers, Sequences, FiniteSets, TLC

VARIABLES
    pc,                 \* position of the request in the code
    email,              \* the argument of validate_email_full
    validation_results, \* the dict built at lines 20-29
    domain,             \* second element of validate_email's tuple (line 35)
    mail_exchange,      \* str(mx_records[0].exchange) (line 47)
    server,             \* the smtplib.SMTP session: "none", "open", "closed"
    code,               \* reply code of server.rcpt (line 68), 0 before
    exc,                \* exception in flight, "none" when there is none
    dns_outcome,        \* what dns.resolver.resolve did in this request
    mx_records,         \* the answer of the resolver (line 43)
    dns_queries,        \* number of resolver queries issued in this request
    smtp_connects,      \* number of SMTP connection attempts in this request
    probe_failed_at     \* SMTP step that raised in this request, or "none"

vars == <<pc, email, validation_results, domain, mail_exchange, server, code,
          exc, dns_outcome, mx_records, dns_queries, smtp_connects,
          probe_failed_at>>

----------------------------------------------------------------------------
(* Bounds of the model *)

MaxLen == 6
MaxMx == 2

Alphabet == {"a", "@", ".", " "}
Emails == UNION {[1..n -> Alphabet] : n \in 0..MaxLen}
Hosts == {"mx1", "mx2"}
MxAnswers == UNION {[1..n -> Hosts] : n \in 0..MaxMx}

\* Exceptions of dns.resolver.resolve; the first three are the ones line 51
\* names, the last two are raised by the resolver and not named there
\* (dns.resolver.LifetimeTimeout, and any other error such as OSError).
ResolverErrors == {"NoAnswer", "NXDOMAIN", "NoNameservers", "Timeout", "OtherError"}
DnsOutcomes == [kind : {"Answer"}, records : MxAnswers]
               \cup [kind : ResolverErrors, records : {<<>>}]

\* Reply codes a server may give to RCPT (-1: smtplib could not parse it);
\* 0 is kept for "no reply yet" in the variable code
RcptCodes == {250, 251, 450, 550, -1}
\* Reply codes a server may give to HELO / MAIL (the code is not inspected)
CmdCodes == {250, 550}
\* Reply codes a server may give to the greeting and to QUIT
GreetingCodes == {220, 554}
QuitCodes == {221, 421}

\* What one SMTP command can do: return a reply, find the connection gone
\* (smtplib closes the socket and raises SMTPServerDisconnected), or raise
\* another exception with the socket still open.
StepOutcomes(codes) == [kind : {"reply"}, code : codes]
                       \cup [kind : {"disconnect", "error"}, code : {0}]

----------------------------------------------------------------------------
(* Stage 1: pydantic.validate_email (line 35) *)

RECURSIVE StripLeft(_)
StripLeft(s) == IF s # <<>> /\ Head(s) = " " THEN StripLeft(Tail(s)) ELSE s

RECURSIVE StripRight(_)
StripRight(s) == IF s # <<>> /\ s[Len(s)] = " "
                 THEN StripRight(SubSeq(s, 1, Len(s) - 1)) ELSE s

Strip(s) == StripRight(StripLeft(s))

AtPositions(s) == {i \in 1..Len(s) : s[i] = "@"}

\* a dot-atom: non-empty, only atom characters and dots, no dot at either
\* end and no two dots in a row
DotAtom(s) ==
    /\ Len(s) > 0
    /\ \A i \in 1..Len(s) : s[i] \notin {" ", "@"}
    /\ s[1] # "."
    /\ s[Len(s)] # "."
    /\ \A i \in 1..(Len(s) - 1) : ~(s[i] = "." /\ s[i + 1] = ".")

\* validate_email: strips the value, checks it against the address grammar
\* and returns the tuple (name, normalised address); ok = FALSE stands for
\* the ValueError it raises.
validate_email(value) ==
    LET e == Strip(value)
        ats == AtPositions(e)
    IN IF Cardinality(ats) # 1
       THEN [ok |-> FALSE, name |-> <<>>, email |-> <<>>]
       ELSE LET at == CHOOSE i \in ats : TRUE
                local == SubSeq(e, 1, at - 1)
                dom == SubSeq(e, at + 1, Len(e))
            IN IF /\ DotAtom(local)
                  /\ DotAtom(dom)
                  /\ \E i \in 1..Len(dom) : dom[i] = "."
               THEN [ok |-> TRUE, name |-> local, email |-> e]
               ELSE [ok |-> FALSE, name |-> <<>>, email |-> <<>>]

----------------------------------------------------------------------------
(* The result record and the assignments made to it *)

InitialResults(e) ==
    [email |-> e,
     is_valid |-> FALSE,
     checks |-> [syntax_valid |-> FALSE,
                 domain_has_mx |-> FALSE,
                 mailbox_exists |-> "unchecked"],
     reason |-> ""]

ReasonInvalidSyntax == "Invalid email syntax."
ReasonNoMx == "Domain does not have MX records."
ReasonCouldNotResolve == "Could not resolve domain or find MX records."
ReasonDeliverable == "Email appears to be valid and deliverable."
ReasonNoMailbox == "Mailbox does not exist (SMTP check)."
ReasonInconclusive(c) ==
    "SMTP check was inconclusive (Code: " \o ToString(c)
        \o "). This could be a catch-all address."
ReasonSmtpFailed ==
    "SMTP check failed (could be a firewall or temporary server issue)."

\* line 36
SyntaxValid(r) == [r EXCEPT !.checks.syntax_valid = TRUE]
\* line 38
SyntaxInvalid(r) == [r EXCEPT !.reason = ReasonInvalidSyntax]
\* line 45
DomainHasMx(r) == [r EXCEPT !.checks.domain_has_mx = TRUE]
\* line 49
NoMxRecords(r) == [r EXCEPT !.reason = ReasonNoMx]
\* line 52
CouldNotResolve(r) == [r EXCEPT !.reason = ReasonCouldNotResolve]

\* the except clause of stage 2 (line 51)
CaughtResolverErrors_no_nxdomain == {"NoAnswer", "NoNameservers"}
CaughtResolverErrors == {"NoAnswer", "NXDOMAIN", "NoNameservers"}

\* the return statements of stage 1: line 39 leaves the function when the
\* syntax check raised, otherwise control falls through to stage 2
Stage1Missing_return(ok) == "stage2"
Stage1Next(ok) == IF ok THEN "stage2" ELSE "returned"

\* lines 70-82: the interpretation of the RCPT reply code
InterpretReply_guess(r, c) ==
    IF c = 250
    THEN [r EXCEPT !.checks.mailbox_exists = "True",
                   !.is_valid = TRUE,
                   !.reason = ReasonDeliverable]
    ELSE IF c = 550
    THEN [r EXCEPT !.checks.mailbox_exists = "False",
                   !.reason = ReasonNoMailbox]
    ELSE [r EXCEPT !.checks.mailbox_exists = "True",
                   !.reason = ReasonInconclusive(c),
                   !.is_valid = TRUE]
InterpretReply_valid550(r, c) ==
    IF c = 250
    THEN [r EXCEPT !.checks.mailbox_exists = "True",
                   !.is_valid = TRUE,
                   !.reason = ReasonDeliverable]
    ELSE IF c = 550
    THEN [r EXCEPT !.checks.mailbox_exists = "False",
                   !.is_valid = TRUE,
                   !.reason = ReasonNoMailbox]
    ELSE [r EXCEPT !.checks.mailbox_exists = "undetermined",
                   !.reason = ReasonInconclusive(c),
                   !.is_valid = TRUE]
InterpretReply(r, c) ==
    IF c = 250
    THEN [r EXCEPT !.checks.mailbox_exists = "True",
                   !.is_valid = TRUE,
                   !.reason = ReasonDeliverable]
    ELSE IF c = 550
    THEN [r EXCEPT !.checks.mailbox_exists = "False",
                   !.reason = ReasonNoMailbox]
    ELSE [r EXCEPT !.checks.mailbox_exists = "undetermined",
                   !.reason = ReasonInconclusive(c),
                   !.is_valid = TRUE]

\* lines 84-89: the handler of every Exception of stage 3
ExceptResult_keeps_verdict(r) ==
    [r EXCEPT !.checks.mailbox_exists = "undetermined",
              !.reason = ReasonSmtpFailed]
ExceptResult(r) ==
    [r EXCEPT !.checks.mailbox_exists = "undetermined",
              !.reason = ReasonSmtpFailed,
              !.is_valid = TRUE]

\* line 60, the with statement: on leaving the block, with or without an
\* exception in flight, SMTP.__exit__ sends QUIT and closes the socket in a
\* finally clause.  (The variant closes only when the block ended normally,
\* as a server.quit() written as the last statement of the block would.)
ServerAfterExit_no_with(srv, pending) ==
    IF pending = "none" THEN "closed" ELSE srv
ServerAfterExit(srv, pending) == "closed"

----------------------------------------------------------------------------
(* The state machine *)

Terminal == {"returned", "raised", "rejected"}

Init ==
    /\ pc = "idle"
    /\ email = <<>>
    /\ validation_results = InitialResults(<<>>)
    /\ domain = <<>>
    /\ mail_exchange = "none"
    /\ server = "none"
    /\ code = 0
    /\ exc = "none"
    /\ dns_outcome = "none"
    /\ mx_records = <<>>
    /\ dns_queries = 0
    /\ smtp_connects = 0
    /\ probe_failed_at = "none"

\* GET /validate?email=e (lines 104-113), up to the creation of the result
\* dict of validate_email_full (lines 20-29).  An empty parameter is
\* rejected with HTTP 400 and the pipeline is not called.
validate_email_endpoint(e) ==
    /\ pc = "idle"
    /\ pc' = IF e = <<>> THEN "rejected" ELSE "stage1"
    /\ email' = e
    /\ validation_results' = InitialResults(e)
    /\ domain' = <<>>
    /\ mail_exchange' = "none"
    /\ server' = "none"
    /\ code' = 0
    /\ exc' = "none"
    /\ dns_outcome' = "none"
    /\ mx_records' = <<>>
    /\ dns_queries' = 0
    /\ smtp_connects' = 0
    /\ probe_failed_at' = "none"

\* Stage 1, lines 32-39
Stage1Syntax ==
    /\ pc = "stage1"
    /\ LET v == validate_email(email)
       IN /\ validation_results' =
                IF v.ok THEN SyntaxValid(validation_results)
                        ELSE SyntaxInvalid(validation_results)
          /\ domain' = v.email
          /\ pc' = Stage1Next(v.ok)
    /\ UNCHANGED <<email, mail_exchange, server, code, exc, dns_outcome,
                   mx_records, dns_queries, smtp_connects, probe_failed_at>>

\* Stage 2, lines 42-53: one resolver query; o is what the resolver does
Stage2Resolve(o) ==
    /\ pc = "stage2"
    /\ dns_queries' = dns_queries + 1
    /\ dns_outcome' = o.kind
    /\ mx_records' = o.records
    /\ IF o.kind = "Answer"
       THEN IF o.records # <<>>
            THEN /\ validation_results' = DomainHasMx(validation_results)
                 /\ mail_exchange' = o.records[1]
                 /\ pc' = "connect"
                 /\ exc' = exc
            ELSE /\ validation_results' = NoMxRecords(validation_results)
                 /\ pc' = "returned"
                 /\ UNCHANGED <<mail_exchange, exc>>
       ELSE IF o.kind \in CaughtResolverErrors
            THEN /\ validation_results' = CouldNotResolve(validation_results)
                 /\ pc' = "returned"
                 /\ UNCHANGED <<mail_exchange, exc>>
            ELSE \* not named at line 51: the exception leaves the function
                 /\ exc' = o.kind
                 /\ pc' = "raised"
                 /\ UNCHANGED <<validation_results, mail_exchange>>
    /\ UNCHANGED <<email, domain, server, code, smtp_connects,
                   probe_failed_at>>

\* Stage 3, line 60: smtplib.SMTP(mail_exchange, timeout=10) opens the
\* connection; refused or timed out, the constructor raises and there is no
\* session (the with block is not entered).
SmtpConnect(ok) ==
    /\ pc = "connect"
    /\ smtp_connects' = smtp_connects + 1
    /\ IF ok
       THEN /\ server' = "open"
            /\ pc' = "greeting"
            /\ UNCHANGED <<exc, probe_failed_at>>
       ELSE /\ exc' = "OSError"
            /\ probe_failed_at' = "connect"
            /\ pc' = "except"
            /\ server' = server
    /\ UNCHANGED <<email, validation_results, domain, mail_exchange, code,
                   dns_outcome, mx_records, dns_queries>>

\* line 60, still the constructor: the greeting is read; any code but 220
\* closes the socket and raises SMTPConnectError, a lost connection closes
\* it and raises SMTPServerDisconnected.
SmtpGreeting(o) ==
    /\ pc = "greeting"
    /\ o.kind # "error"
    /\ IF o.kind = "reply" /\ o.code = 220
       THEN /\ pc' = "helo"
            /\ UNCHANGED <<server, exc, probe_failed_at>>
       ELSE /\ server' = "closed"
            /\ exc' = IF o.kind = "reply" THEN "SMTPConnectError"
                                          ELSE "SMTPServerDisconnected"
            /\ probe_failed_at' = "greeting"
            /\ pc' = "except"
    /\ UNCHANGED <<email, validation_results, domain, mail_exchange, code,
                   dns_outcome, mx_records, dns_queries, smtp_connects>>

\* a command inside the with block (lines 62, 63): its reply code is not
\* inspected; an exception leaves the block through SMTP.__exit__
SmtpCommand(at, next, o) ==
    /\ pc = at
    /\ IF o.kind = "reply"
       THEN /\ pc' = next
            /\ UNCHANGED <<server, exc, probe_failed_at>>
       ELSE /\ server' = IF o.kind = "disconnect" THEN "closed" ELSE server
            /\ exc' = IF o.kind = "disconnect" THEN "SMTPServerDisconnected"
                                               ELSE "Exception"
            /\ probe_failed_at' = at
            /\ pc' = "exit"
    /\ UNCHANGED <<email, validation_results, domain, mail_exchange, code,
                   dns_outcome, mx_records, dns_queries, smtp_connects>>

\* line 62
SmtpHelo(o) == SmtpCommand("helo", "mail", o)

\* line 63
SmtpMail(o) == SmtpCommand("mail", "rcpt", o)

\* line 68
SmtpRcpt(o) ==
    /\ pc = "rcpt"
    /\ IF o.kind = "reply"
       THEN /\ code' = o.code
            /\ pc' = "interpret"
            /\ UNCHANGED <<server, exc, probe_failed_at>>
       ELSE /\ server' = IF o.kind = "disconnect" THEN "closed" ELSE server
            /\ exc' = IF o.kind = "disconnect" THEN "SMTPServerDisconnected"
                                               ELSE "Exception"
            /\ probe_failed_at' = "rcpt"
            /\ pc' = "exit"
            /\ code' = code
    /\ UNCHANGED <<email, validation_results, domain, mail_exchange,
                   dns_outcome, mx_records, dns_queries, smtp_connects>>

\* lines 70-82
Interpret ==
    /\ pc = "interpret"
    /\ validation_results' = InterpretReply(validation_results, code)
    /\ pc' = "exit"
    /\ UNCHANGED <<email, domain, mail_exchange, server, code, exc,
                   dns_outcome, mx_records, dns_queries, smtp_connects,
                   probe_failed_at>>

\* The end of the with block of line 60, SMTP.__exit__: QUIT is sent; a reply
\* other than 221 raises SMTPResponseException, a lost connection is
\* ignored, and the socket is closed in either case.  On a socket smtplib
\* has closed already, QUIT can only find the connection gone.  Without an
\* exception in flight the function returns (line 91).
SmtpExit(q) ==
    /\ pc = "exit"
    /\ q.kind # "error"
    /\ server = "closed" => q.kind = "disconnect"
    /\ LET raises == q.kind = "reply" /\ q.code # 221
           pending == IF raises THEN "SMTPResponseException" ELSE exc
       IN /\ exc' = pending
          /\ server' = ServerAfterExit(server, exc)
          /\ probe_failed_at' = IF raises /\ probe_failed_at = "none"
                                THEN "quit" ELSE probe_failed_at
          /\ pc' = IF pending = "none" THEN "returned" ELSE "except"
    /\ UNCHANGED <<email, validation_results, domain, mail_exchange, code,
                   dns_outcome, mx_records, dns_queries, smtp_connects>>

\* lines 84-91
ExceptHandler ==
    /\ pc = "except"
    /\ validation_results' = ExceptResult(validation_results)
    /\ exc' = "none"
    /\ pc' = "returned"
    /\ UNCHANGED <<email, domain, mail_exchange, server, code, dns_outcome,
                   mx_records, dns_queries, smtp_connects, probe_failed_at>>

\* The request ends: the endpoint hands the result to the framework (line
\* 113) or the exception leaves it; nothing of the request is kept.
Respond ==
    /\ pc \in Terminal
    /\ pc' = "idle"
    /\ email' = <<>>
    /\ validation_results' = InitialResults(<<>>)
    /\ domain' = <<>>
    /\ mail_exchange' = "none"
    /\ server' = "none"
    /\ code' = 0
    /\ exc' = "none"
    /\ dns_outcome' = "none"
    /\ mx_records' = <<>>
    /\ dns_queries' = 0
    /\ smtp_connects' = 0
    /\ probe_failed_at' = "none"

Next ==
    \/ pc = "idle" /\ \E e \in Emails : validate_email_endpoint(e)
    \/ Stage1Syntax
    \/ \E o \in DnsOutcomes : Stage2Resolve(o)
    \/ \E ok \in BOOLEAN : SmtpConnect(ok)
    \/ \E o \in StepOutcomes(GreetingCodes) : SmtpGreeting(o)
    \/ \E o \in StepOutcomes(CmdCodes) : SmtpHelo(o)
    \/ \E o \in StepOutcomes(CmdCodes) : SmtpMail(o)
    \/ \E o \in StepOutcomes(RcptCodes) : SmtpRcpt(o)
    \/ Interpret
    \/ \E q \in StepOutcomes(QuitCodes) : SmtpExit(q)
    \/ ExceptHandler
    \/ Respond

Spec == Init /\ [][Next]_vars

----------------------------------------------------------------------------
(* Properties of the pipeline *)

Result == validation_results
SyntaxFails == ~validate_email(email).ok
\* the try block of stage 3 (line 58) was entered
ProbeEntered == smtp_connects > 0
\* the resolver gave a definitive "no MX" answer
NoMxAnswer ==
    \/ dns_outcome \in {"NoAnswer", "NXDOMAIN"}
    \/ dns_outcome = "Answer" /\ mx_records = <<>>
\* the resolver failed without an answer about the domain
TransientResolverFailure ==
    dns_outcome \in {"Timeout", "NoNameservers", "OtherError"}
\* the reasons returned in the definitive cases (empty answer; NXDOMAIN)
DefinitiveReasons ==
    {NoMxRecords(Result).reason, CouldNotResolve(Result).reason}

\* C1: an input that fails the syntax check is answered with
\* syntax_valid = false, is_valid = false and the reason "Invalid email
\* syntax.", and neither a resolver query nor an SMTP connection is issued
\* in that invocation.
C1_SyntaxFailureShortCircuits ==
    SyntaxFails =>
        /\ dns_queries = 0
        /\ smtp_connects = 0
        /\ server = "none"
        /\ pc \in {"idle", "stage1", "returned", "rejected"}
        /\ pc = "returned" =>
              /\ Result.checks.syntax_valid = FALSE
              /\ Result.is_valid = FALSE
              /\ Result.reason = "Invalid email syntax."

C1_Witness ==
    /\ pc = "returned"
    /\ SyntaxFails
    /\ AtPositions(email) # {}
    /\ Result.reason = "Invalid email syntax."

\* C2: a syntactically valid address whose MX lookup yields no answers
\* (empty answer, NoAnswer, NXDOMAIN) is answered with syntax_valid = true,
\* domain_has_mx = false, is_valid = false, and no SMTP connection is
\* attempted.
C2_NoMxShortCircuits ==
    NoMxAnswer =>
        /\ pc = "returned"
        /\ Result.checks.syntax_valid = TRUE
        /\ Result.checks.domain_has_mx = FALSE
        /\ Result.is_valid = FALSE
        /\ smtp_connects = 0
        /\ server = "none"

C2_Witness ==
    /\ pc = "returned"
    /\ dns_outcome = "NXDOMAIN"
    /\ Result.checks.syntax_valid
    /\ ~Result.checks.domain_has_mx

\* C3: when the MX lookup fails transiently (timeout, name servers
\* unreachable, other resolver exception) the invocation returns a result
\* with is_valid = false whose reason differs from the reasons of the
\* definitive "no MX records" / non-existent-domain cases.
C3_TransientFailureDistinctReason ==
    TransientResolverFailure =>
        /\ pc = "returned"
        /\ Result.is_valid = FALSE
        /\ Result.reason \notin DefinitiveReasons

\* C4: every invocation ends by returning the result record; no exception
\* leaves validate_email_full.
C4_NoExceptionEscapes ==
    /\ pc # "raised"
    /\ pc = "returned" => exc = "none" /\ Result.email = email

\* C5: when RCPT replied 250 the returned result has mailbox_exists = true
\* and is_valid = true, whatever happens while the session is closed.
C5_Rcpt250MeansExists ==
    pc = "returned" /\ code = 250 =>
        /\ Result.checks.mailbox_exists = "True"
        /\ Result.is_valid = TRUE

\* C6: when RCPT replied 550 the returned result has mailbox_exists = false,
\* is_valid = false and domain_has_mx = true, whatever happens while the
\* session is closed.
C6_Rcpt550MeansAbsent ==
    pc = "returned" /\ code = 550 =>
        /\ Result.checks.mailbox_exists = "False"
        /\ Result.is_valid = FALSE
        /\ Result.checks.domain_has_mx = TRUE

\* C7: when the probe is entered and is inconclusive (RCPT reply neither
\* 250 nor 550, or connect / greeting / HELO / MAIL / RCPT raised) the
\* returned result has mailbox_exists = "undetermined" and is_valid = true.
C7_InconclusiveProbe ==
    (/\ pc = "returned"
     /\ ProbeEntered
     /\ \/ code \notin {0, 250, 550}
        \/ probe_failed_at \in {"connect", "greeting", "helo", "mail", "rcpt"})
    => /\ Result.checks.mailbox_exists = "undetermined"
       /\ Result.is_valid = TRUE

C7_Witness ==
    /\ pc = "returned"
    /\ probe_failed_at = "connect"
    /\ Result.checks.mailbox_exists = "undetermined"
    /\ Result.is_valid

\* C8: in a returned result mailbox_exists is true only after RCPT replied
\* 250 and false only after RCPT replied 550; whenever the probe failed or
\* RCPT replied another code it is "undetermined".
C8_BooleanOnlyWhenDefinitive ==
    pc = "returned" =>
        /\ Result.checks.mailbox_exists = "True" =>
              ProbeEntered /\ code = 250 /\ probe_failed_at = "none"
        /\ Result.checks.mailbox_exists = "False" =>
              ProbeEntered /\ code = 550 /\ probe_failed_at = "none"
        /\ (ProbeEntered /\ (probe_failed_at # "none" \/ code \notin {250, 550}))
              => Result.checks.mailbox_exists = "undetermined"

C8_Witness ==
    /\ pc = "returned"
    /\ code = 250
    /\ probe_failed_at = "quit"
    /\ Result.checks.mailbox_exists = "undetermined"

\* C9: a session that was opened is closed before the invocation returns,
\* on every outcome of the conversation.
C9_SessionClosedOnReturn ==
    pc \in Terminal \cup {"except"} => server # "open"

C9_Witness ==
    /\ pc = "returned"
    /\ server = "closed"
    /\ probe_failed_at = "mail"

\* C10: in a returned result is_valid implies syntax_valid, domain_has_mx
\* and mailbox_exists # false; and mailbox_exists is "unchecked" exactly
\* when the invocation returned before the probe stage.
C10_VerdictConsistent ==
    pc = "returned" =>
        /\ Result.is_valid =>
              /\ Result.checks.syntax_valid
              /\ Result.checks.domain_has_mx
              /\ Result.checks.mailbox_exists # "False"
        /\ Result.checks.mailbox_exists = "unchecked" <=> ~ProbeEntered

C10_Witness ==
    /\ pc = "returned"
    /\ code = 550
    /\ Result.checks.mailbox_exists = "False"
    /\ ~Result.is_valid

====
